---- MODULE Spec2Model ----
(***************************************************************************)
(* GElib: the SO3bipartView adapter (objects/SO3n/SO3bipartView.hpp), the  *)
(* SO3vecB test driver (objects/SO3/tests/testSO3vecB.cpp) and the Python  *)
(* binding layer (python/GElib_py.cpp, python/bindings/SO3part_py.cpp).    *)
(*                                                                         *)
(* One behaviour is one client of the library: a C++ client holding an     *)
(* SO3bipartView ("view"), the test driver's main ("test"), or a Python    *)
(* interpreter that imports the extension module ("python").               *)
(***************************************************************************)
EXTENDS Integers, Sequences, FiniteSets, TLC

VARIABLES
  client,   \* which program this behaviour is: "view", "test" or "python"
  x,        \* the SO3bipartView the C++ client constructed (NoView before)
  y,        \* the SO3bipartView last returned by x.batch(i) (NoView before)
  ret,      \* the last member call on a view: its name, target, argument, result
  kcalls,   \* how often each CG-transform kernel has been invoked
  session,  \* the process's GElibSession: live, and how often set up and torn down
  pc,       \* test driver: index of main's next statement
  env,      \* test driver: the values of main's local objects
  stack,    \* test driver: main's constructed automatic objects, oldest first
  pyphase,  \* Python: "start", "loaded", "ready", "finalized" or "exited"
  pytau,    \* Python: the SO3type object the script holds (NoObj before)
  pyret     \* Python: the last call through a binding

viewVars == <<x, y, ret, kcalls>>
testVars == <<pc, env, stack>>
pyVars == <<pyphase, pytau, pyret>>
vars == <<client, x, y, ret, kcalls, session, pc, env, stack, pyphase, pytau, pyret>>

\* ---------------------------------------------------------------- bounds

MaxB == 2        \* batch dimension ranges over 1..MaxB
MaxDim == 3      \* the two degree dimensions range over 0..MaxDim
MaxN == 2        \* channel dimension ranges over 1..MaxN
MaxCalls == 2    \* kernel invocations counted per behaviour
MaxSample == 3   \* distinct outcomes of one gaussian draw
MaxLen == 1      \* SO3type: lists have up to MaxLen entries, indices 0..MaxLen are assigned

Devices == {0, 1}
Offsets == {0, 1}

\* ------------------------------------------------------------ arithmetic

\* C++ int division by a positive divisor: the quotient truncates toward zero.
CDiv(a, b) == IF a >= 0 THEN a \div b ELSE -((-a) \div b)

\* std::to_string(int): the decimal digits, most significant first, "-" in front
\* of a negative value.
Digit(d) == <<"0", "1", "2", "3", "4", "5", "6", "7", "8", "9">>[d + 1]

RECURSIVE NatChars(_)
NatChars(n) == IF n < 10 THEN <<Digit(n)>> ELSE NatChars(n \div 10) \o <<Digit(n % 10)>>

to_string(n) == IF n < 0 THEN <<"-">> \o NatChars(-n) ELSE NatChars(n)

\* ------------------------------------------------------ tensor views (inputs)

\* A view is a pointer (buffer, offset in elements), dims, strides and a device.
NoView == [arr |-> [buf |-> "none", offs |-> 0], dims |-> <<>>, strides |-> <<>>, dev |-> 0]

\* The 4-dimensional batched complex tensors a client can wrap: every shape
\* (b, d1, d2, n) within the bounds, packed row-major, on either device.  The
\* degree dimensions are not restricted to odd values: nothing in the view
\* class restricts them.
TensorViews ==
  { [arr |-> [buf |-> "X", offs |-> 0],
     dims |-> <<b, d1, d2, n>>,
     strides |-> <<d1 * d2 * n, d2 * n, n, 1>>,
     dev |-> dev] :
       b \in 1..MaxB, d1 \in 0..MaxDim, d2 \in 0..MaxDim, n \in 1..MaxN, dev \in Devices }

\* The SO3partView arguments r of the CG-transforms: (b, 2l+1, n) on the view's device.
PartViews(v) ==
  { [arr |-> [buf |-> "R", offs |-> 0],
     dims |-> <<v.dims[1], 2 * l + 1, m>>,
     strides |-> <<(2 * l + 1) * m, m, 1>>,
     dev |-> v.dev] : l \in 0..1, m \in 1..MaxN }

\* dims[i] and strides[i] with the source's zero-based index.
Dim(v, i) == v.dims[i + 1]
Stride(v, i) == v.strides[i + 1]

\* -------------------------------------------------------- SO3bipartView

\* SO3bipartView(const TensorView& x): TensorView(x){}
SO3bipartView(t) == [arr |-> t.arr, dims |-> t.dims, strides |-> t.strides, dev |-> t.dev]

device(v) == v.dev
getb(v) == Dim(v, 0)

getl1_wrongdim(v) == CDiv(Dim(v, 2) - 1, 2)
getl1_floor(v) == (Dim(v, 1) - 1) \div 2
getl1(v) == CDiv(Dim(v, 1) - 1, 2)

getl2_roundup(v) == CDiv(Dim(v, 2) + 1, 2)
getl2(v) == CDiv(Dim(v, 2) - 1, 2)

getn(v) == Dim(v, 3)

\* arr.ptr_as<RTYPE>(): the same address read as reals, two per complex element.
ptr_as_real(arr) == [buf |-> arr.buf, offs |-> 2 * arr.offs]

\* operator cnine::Ctensor4_view() const
Ctensor4_view_nodouble(v) ==
  [arr |-> ptr_as_real(v.arr),
   dims |-> <<Dim(v, 0), Dim(v, 1), Dim(v, 2), Dim(v, 3)>>,
   strides |-> <<Stride(v, 0), Stride(v, 1), Stride(v, 2), Stride(v, 3)>>,
   coffs |-> 1,
   dev |-> device(v)]
Ctensor4_view(v) ==
  [arr |-> ptr_as_real(v.arr),
   dims |-> <<Dim(v, 0), Dim(v, 1), Dim(v, 2), Dim(v, 3)>>,
   strides |-> <<2 * Stride(v, 0), 2 * Stride(v, 1), 2 * Stride(v, 2), 2 * Stride(v, 3)>>,
   coffs |-> 1,
   dev |-> device(v)]

\* cnine::Ctensor3_view(r) of an SO3partView r.
Ctensor3_view(r) ==
  [arr |-> ptr_as_real(r.arr),
   dims |-> <<Dim(r, 0), Dim(r, 1), Dim(r, 2)>>,
   strides |-> <<2 * Stride(r, 0), 2 * Stride(r, 1), 2 * Stride(r, 2)>>,
   coffs |-> 1,
   dev |-> r.dev]

\* BatchedTensorView::bbatch(i): batch i alone, still a batched 4-index view.
bbatch(v, i) ==
  [arr |-> [buf |-> v.arr.buf, offs |-> v.arr.offs + Stride(v, 0) * i],
   dims |-> <<1, Dim(v, 1), Dim(v, 2), Dim(v, 3)>>,
   strides |-> v.strides,
   dev |-> v.dev]

\* The line the source keeps commented out: the batch dimension dropped.
batch_chunk(v, i) ==
  SO3bipartView([arr |-> [buf |-> v.arr.buf, offs |-> v.arr.offs + Stride(v, 0) * i],
                 dims |-> <<Dim(v, 1), Dim(v, 2), Dim(v, 3), 1>>,
                 strides |-> <<Stride(v, 1), Stride(v, 2), Stride(v, 3), 1>>,
                 dev |-> v.dev])
batch(v, i) == SO3bipartView(bbatch(v, i))

ReprHead == <<"<","G","E","l","i","b",":",":","S","O","3","b","i","p","a","r","t","(","b","=">>

repr(v) ==
  ReprHead \o to_string(getb(v)) \o <<",","l","1","=">> \o to_string(getl1(v))
    \o <<",","l","2","=">> \o to_string(getl2(v)) \o <<",","n","=">> \o to_string(getn(v))
    \o <<")",">">>

\* "const int offs=0": the argument list a is <<>> (omitted) or <<offs>>.
OffsArg(a) == IF a = <<>> THEN 0 ELSE a[1]
OffsArgs == {<<>>} \cup {<<o>> : o \in Offsets}

\* Both kernels accumulate into their first argument and read their second.
KernelDst(call) == call.arg1
KernelSrc(call) == call.arg2

\* The kernel invocation add_CGtransform_to makes: SO3part_addCGtransformFn()(r3, x4, offs).
add_CGtransform_to(v, r, a) ==
  [fn |-> "SO3part_addCGtransformFn", arg1 |-> Ctensor3_view(r), arg2 |-> Ctensor4_view(v),
   offs |-> OffsArg(a)]

\* The kernel invocation add_CGtransform_back makes: SO3part_addCGtransform_backFn()(x4, r3, offs).
add_CGtransform_back_swapped(v, r, a) ==
  [fn |-> "SO3part_addCGtransform_backFn", arg1 |-> Ctensor3_view(r), arg2 |-> Ctensor4_view(v),
   offs |-> OffsArg(a)]
add_CGtransform_back(v, r, a) ==
  [fn |-> "SO3part_addCGtransform_backFn", arg1 |-> Ctensor4_view(v), arg2 |-> Ctensor3_view(r),
   offs |-> OffsArg(a)]

\* ------------------------------------------------------- the C++ client

NoRet == [op |-> "none", tgt |-> "x", arg |-> <<>>, val |-> <<>>]

Targets == IF y = NoView THEN {"x"} ELSE {"x", "y"}
View(tgt) == IF tgt = "x" THEN x ELSE y

Construct ==
  /\ client = "view" /\ x = NoView
  /\ \E t \in TensorViews : x' = SO3bipartView(t)
  /\ UNCHANGED <<client, y, ret, kcalls, session, testVars, pyVars>>

Getl1 ==
  /\ client = "view" /\ x # NoView
  /\ \E tgt \in Targets : ret' = [op |-> "getl1", tgt |-> tgt, arg |-> <<>>, val |-> getl1(View(tgt))]
  /\ UNCHANGED <<client, x, y, kcalls, session, testVars, pyVars>>

Getl2 ==
  /\ client = "view" /\ x # NoView
  /\ \E tgt \in Targets : ret' = [op |-> "getl2", tgt |-> tgt, arg |-> <<>>, val |-> getl2(View(tgt))]
  /\ UNCHANGED <<client, x, y, kcalls, session, testVars, pyVars>>

Getn ==
  /\ client = "view" /\ x # NoView
  /\ \E tgt \in Targets : ret' = [op |-> "getn", tgt |-> tgt, arg |-> <<>>, val |-> getn(View(tgt))]
  /\ UNCHANGED <<client, x, y, kcalls, session, testVars, pyVars>>

Batch ==
  /\ client = "view" /\ x # NoView
  /\ \E i \in 0..(getb(x) - 1) :
       /\ y' = batch(x, i)
       /\ ret' = [op |-> "batch", tgt |-> "x", arg |-> <<i>>, val |-> batch(x, i)]
  /\ UNCHANGED <<client, x, kcalls, session, testVars, pyVars>>

Repr ==
  /\ client = "view" /\ x # NoView
  /\ \E tgt \in Targets : ret' = [op |-> "repr", tgt |-> tgt, arg |-> <<>>, val |-> repr(View(tgt))]
  /\ UNCHANGED <<client, x, y, kcalls, session, testVars, pyVars>>

Convert ==
  /\ client = "view" /\ x # NoView
  /\ \E tgt \in Targets :
       ret' = [op |-> "Ctensor4_view", tgt |-> tgt, arg |-> <<>>, val |-> Ctensor4_view(View(tgt))]
  /\ UNCHANGED <<client, x, y, kcalls, session, testVars, pyVars>>

AddCGtransformTo ==
  /\ client = "view" /\ x # NoView
  /\ kcalls.fwd + kcalls.back < MaxCalls
  /\ \E r \in PartViews(x), a \in OffsArgs :
       ret' = [op |-> "add_CGtransform_to", tgt |-> "x", arg |-> <<r, a>>,
               val |-> add_CGtransform_to(x, r, a)]
  /\ kcalls' = [kcalls EXCEPT !.fwd = @ + 1]
  /\ UNCHANGED <<client, x, y, session, testVars, pyVars>>

AddCGtransformBack ==
  /\ client = "view" /\ x # NoView
  /\ kcalls.fwd + kcalls.back < MaxCalls
  /\ \E r \in PartViews(x), a \in OffsArgs :
       ret' = [op |-> "add_CGtransform_back", tgt |-> "x", arg |-> <<r, a>>,
               val |-> add_CGtransform_back(x, r, a)]
  /\ kcalls' = [kcalls EXCEPT !.back = @ + 1]
  /\ UNCHANGED <<client, x, y, session, testVars, pyVars>>

ViewNext ==
  \/ Construct \/ Getl1 \/ Getl2 \/ Getn \/ Batch \/ Repr \/ Convert
  \/ AddCGtransformTo \/ AddCGtransformBack

\* ------------------------------------------------- claims: SO3bipartView

Odd(d) == d % 2 = 1

\* C1: on a view with dims (b, 2*l1+1, 2*l2+1, n), getl1() returns l1, getl2()
\* returns l2 and getn() returns n.
C1_DegreesFromShape ==
  LET v == View(ret.tgt) IN
    /\ ret.op = "getl1" => \A l \in 0..MaxDim : Dim(v, 1) = 2 * l + 1 => ret.val = l
    /\ ret.op = "getl2" => \A l \in 0..MaxDim : Dim(v, 2) = 2 * l + 1 => ret.val = l
    /\ ret.op = "getn" => ret.val = v.dims[4]

C1_Witness == ret.op = "getl1" /\ ret.tgt = "x" /\ x.dims = <<2, 3, 1, 2>> /\ ret.val = 1

\* C2 as stated: every constructed view has dims[1] = 2*getl1()+1 and
\* dims[2] = 2*getl2()+1.
C2_ShapeRoundTrips ==
  x # NoView => Dim(x, 1) = 2 * getl1(x) + 1 /\ Dim(x, 2) = 2 * getl2(x) + 1

\* C2 amended: the constructors check nothing, and a degree dimension
\* round-trips through its degree exactly when it is odd.
C2_RoundTripIffOdd ==
  \A v \in {x, y} \ {NoView} :
    /\ (Dim(v, 1) = 2 * getl1(v) + 1) <=> Odd(Dim(v, 1))
    /\ (Dim(v, 2) = 2 * getl2(v) + 1) <=> Odd(Dim(v, 2))

C2_Witness == x # NoView /\ Dim(x, 1) = 3 /\ Dim(x, 2) = 1 /\ 2 * getl2(x) + 1 = 1

\* C6: the Ctensor4_view of a view is on the same storage at the same address and
\* on the same device, has the view's four dims and twice each of its strides;
\* and no member call changes a constructed view.
C6_ConversionAliases ==
  /\ [](ret.op = "Ctensor4_view" =>
          LET v == View(ret.tgt)
              c == ret.val
          IN /\ c.arr.buf = v.arr.buf
             /\ c.arr.offs = 2 * v.arr.offs
             /\ c.dev = v.dev
             /\ Len(c.dims) = 4 /\ c.dims = v.dims
             /\ Len(c.strides) = 4
             /\ \A i \in 1..4 : c.strides[i] = 2 * v.strides[i])
  /\ [][x # NoView => x' = x]_vars
  /\ [][(y # NoView /\ ret'.op # "batch") => y' = y]_vars

C6_Witness ==
  /\ ret.op = "Ctensor4_view" /\ ret.tgt = "y"
  /\ y.arr.offs > 0 /\ ret.val.strides = <<24, 8, 4, 2>>

\* C8: add_CGtransform_to invokes the forward kernel once, accumulating into r
\* (3-index) from this view (4-index); add_CGtransform_back invokes the backward
\* kernel once, accumulating into this view from r; offs is passed through (0
\* when omitted) and the view is unchanged.
C8_Delegation ==
  /\ [](ret.op = "add_CGtransform_to" =>
          LET r == ret.arg[1]
              k == ret.val
          IN /\ k.fn = "SO3part_addCGtransformFn"
             /\ KernelDst(k).arr.buf = r.arr.buf /\ KernelDst(k).dims = r.dims
             /\ KernelSrc(k).arr.buf = x.arr.buf /\ KernelSrc(k).dims = x.dims
             /\ k.offs = (IF ret.arg[2] = <<>> THEN 0 ELSE ret.arg[2][1]))
  /\ [](ret.op = "add_CGtransform_back" =>
          LET r == ret.arg[1]
              k == ret.val
          IN /\ k.fn = "SO3part_addCGtransform_backFn"
             /\ KernelDst(k).arr.buf = x.arr.buf /\ KernelDst(k).dims = x.dims
             /\ KernelSrc(k).arr.buf = r.arr.buf /\ KernelSrc(k).dims = r.dims
             /\ k.offs = (IF ret.arg[2] = <<>> THEN 0 ELSE ret.arg[2][1]))
  /\ [][ret'.op = "add_CGtransform_to" =>
          kcalls' = [kcalls EXCEPT !.fwd = @ + 1] /\ x' = x /\ y' = y]_vars
  /\ [][ret'.op = "add_CGtransform_back" =>
          kcalls' = [kcalls EXCEPT !.back = @ + 1] /\ x' = x /\ y' = y]_vars

C8_Witness ==
  /\ ret.op = "add_CGtransform_back" /\ ret.arg[2] = <<>> /\ ret.val.offs = 0
  /\ kcalls = [fwd |-> 1, back |-> 1]

\* C9: for a dimension d >= 0, getl1() and getl2() are never negative; d = 0
\* gives 0, and an even d = 2k (k >= 1) gives k-1, as the odd 2k-1 does.
C9_TruncatedDegree ==
  ret.op \in {"getl1", "getl2"} =>
    LET v == View(ret.tgt)
        d == IF ret.op = "getl1" THEN Dim(v, 1) ELSE Dim(v, 2)
    IN /\ ret.val >= 0
       /\ d = 0 => ret.val = 0
       /\ \A k \in 1..MaxDim : d \in {2 * k, 2 * k - 1} => ret.val = k - 1

C9_Witness == ret.op = "getl1" /\ Dim(View(ret.tgt), 1) = 0 /\ ret.val = 0

\* Reading a repr back: the integers that follow each "=", in order.
DigitVal(c) == CHOOSE d \in 0..9 : Digit(d) = c
IsDigit(c) == \E d \in 0..9 : Digit(d) = c

RECURSIVE ReadNat(_, _, _)
ReadNat(s, p, acc) ==
  IF p <= Len(s) /\ IsDigit(s[p]) THEN ReadNat(s, p + 1, acc * 10 + DigitVal(s[p])) ELSE acc

ReadInt(s, p) == IF p <= Len(s) /\ s[p] = "-" THEN -ReadNat(s, p + 1, 0) ELSE ReadNat(s, p, 0)

RECURSIVE ReprFields(_, _)
ReprFields(s, p) ==
  IF p > Len(s) THEN <<>>
  ELSE IF s[p] = "=" THEN <<ReadInt(s, p + 1)>> \o ReprFields(s, p + 1)
  ELSE ReprFields(s, p + 1)

\* C10: batch(i) is a view on the parent's storage with the parent's l1, l2 and
\* n, and the repr of either view reads back as (getb, getl1, getl2, getn).
C10_BatchKeepsDegrees ==
  /\ ret.op = "batch" =>
       /\ ret.val.arr.buf = x.arr.buf
       /\ ret.val.arr.offs = x.arr.offs + Stride(x, 0) * ret.arg[1]
       /\ getl1(ret.val) = getl1(x) /\ getl2(ret.val) = getl2(x) /\ getn(ret.val) = getn(x)
  /\ (ret.tgt = "y" /\ ret.op = "getl1") => ret.val = getl1(x)
  /\ (ret.tgt = "y" /\ ret.op = "getl2") => ret.val = getl2(x)
  /\ (ret.tgt = "y" /\ ret.op = "getn") => ret.val = getn(x)
  /\ ret.op = "repr" =>
       LET v == View(ret.tgt) IN
         ReprFields(ret.val, 1) = <<getb(v), getl1(v), getl2(v), getn(v)>>

C10_Witness ==
  /\ ret.op = "repr" /\ ret.tgt = "y" /\ y.arr.offs > 0
  /\ x.dims = <<2, 2, 3, 2>> /\ ReprFields(ret.val, 1) = <<1, 0, 1, 2>>

\* --------------------------------------------------------- GElibSession

\* The session object: set up by its constructor, torn down by its destructor.
NoSession == [live |-> FALSE, inits |-> 0, teardowns |-> 0]
GElibSession_ctor(s) == [s EXCEPT !.live = TRUE, !.inits = @ + 1]
GElibSession_dtor(s) == [s EXCEPT !.live = FALSE, !.teardowns = @ + 1]

\* ------------------------------------------------ the test driver's main

Locals == {"tau", "u", "v", "w", "ug", "vg", "wg"}
Undef == [undef |-> TRUE]
Samples == 1..MaxSample

\* SO3vecB::gaussian(b, tau): a fresh vector of type tau, batch b, on device 0;
\* s stands for the random entries drawn.
SO3vecB_gaussian(b, tau, s) == [b |-> b, tau |-> tau, dev |-> 0, data |-> <<"gaussian", s>>]

\* SO3vecB::CGproduct(y, maxl): a new vector computed from this and y, on this's device.
SO3vecB_CGproduct(a, b, maxl) ==
  [b |-> a.b, tau |-> <<"CGproduct", a.tau, b.tau, maxl>>, dev |-> a.dev,
   data |-> <<"CGproduct", a.data, a.dev, b.data, b.dev, maxl>>]

\* SO3vecB::to_device(dev): a copy of this on device dev.
SO3vecB_to_device(a, dev) == [a EXCEPT !.dev = dev]

St(line, op, dst, src, arg) == [line |-> line, op |-> op, dst |-> dst, src |-> src, arg |-> arg]

\* A variant of main that constructs the session after tau.
MainProgram_late_session ==
  << St(17, "SO3type", "tau", <<>>, <<2, 2, 2>>),
     St(13, "GElibSession", "session", <<>>, 0),
     St(19, "gaussian", "u", <<"tau">>, 1),
     St(20, "gaussian", "v", <<"tau">>, 1),
     St(21, "print", "", <<"u">>, 0),
     St(22, "print", "", <<"v">>, 0),
     St(24, "CGproduct", "w", <<"u", "v">>, 2),
     St(25, "print", "", <<"w">>, 0),
     St(29, "to_device", "ug", <<"u">>, 1),
     St(30, "to_device", "vg", <<"v">>, 1),
     St(32, "print", "", <<"ug">>, 0),
     St(33, "print", "", <<"vg">>, 0),
     St(35, "CGproduct", "wg", <<"ug", "vg">>, 2),
     St(36, "print", "", <<"wg">>, 0) >>

\* A variant of main whose device product takes the host vector u.
MainProgram_host_operand ==
  << St(13, "GElibSession", "session", <<>>, 0),
     St(17, "SO3type", "tau", <<>>, <<2, 2, 2>>),
     St(19, "gaussian", "u", <<"tau">>, 1),
     St(20, "gaussian", "v", <<"tau">>, 1),
     St(21, "print", "", <<"u">>, 0),
     St(22, "print", "", <<"v">>, 0),
     St(24, "CGproduct", "w", <<"u", "v">>, 2),
     St(25, "print", "", <<"w">>, 0),
     St(29, "to_device", "ug", <<"u">>, 1),
     St(30, "to_device", "vg", <<"v">>, 1),
     St(32, "print", "", <<"ug">>, 0),
     St(33, "print", "", <<"vg">>, 0),
     St(35, "CGproduct", "wg", <<"u", "vg">>, 2),
     St(36, "print", "", <<"wg">>, 0) >>

\* main's statements in program order (source line, operation, object defined,
\* operands, literal argument).
MainProgram ==
  << St(13, "GElibSession", "session", <<>>, 0),
     St(17, "SO3type", "tau", <<>>, <<2, 2, 2>>),
     St(19, "gaussian", "u", <<"tau">>, 1),
     St(20, "gaussian", "v", <<"tau">>, 1),
     St(21, "print", "", <<"u">>, 0),
     St(22, "print", "", <<"v">>, 0),
     St(24, "CGproduct", "w", <<"u", "v">>, 2),
     St(25, "print", "", <<"w">>, 0),
     St(29, "to_device", "ug", <<"u">>, 1),
     St(30, "to_device", "vg", <<"v">>, 1),
     St(32, "print", "", <<"ug">>, 0),
     St(33, "print", "", <<"vg">>, 0),
     St(35, "CGproduct", "wg", <<"ug", "vg">>, 2),
     St(36, "print", "", <<"wg">>, 0) >>

\* The value a statement gives the object it defines; s is the gaussian draw.
Eval(st, e, s) ==
  CASE st.op = "SO3type" -> st.arg
    [] st.op = "gaussian" -> SO3vecB_gaussian(st.arg, e[st.src[1]], s)
    [] st.op = "CGproduct" -> SO3vecB_CGproduct(e[st.src[1]], e[st.src[2]], st.arg)
    [] st.op = "to_device" -> SO3vecB_to_device(e[st.src[1]], st.arg)

\* One statement of main.  An operand is an object constructed earlier.
MainExec ==
  /\ client = "test" /\ pc <= Len(MainProgram)
  /\ LET st == MainProgram[pc] IN
       /\ \A n \in {st.src[i] : i \in 1..Len(st.src)} : \E k \in 1..Len(stack) : stack[k] = n
       /\ pc' = pc + 1
       /\ IF st.op = "GElibSession"
            THEN /\ session' = GElibSession_ctor(session)
                 /\ stack' = Append(stack, st.dst)
                 /\ env' = env
            ELSE IF st.op = "print"
            THEN UNCHANGED <<session, stack, env>>
            ELSE /\ \E s \in (IF st.op = "gaussian" THEN Samples ELSE {1}) :
                      env' = [env EXCEPT ![st.dst] = Eval(st, env, s)]
                 /\ stack' = Append(stack, st.dst)
                 /\ session' = session
  /\ UNCHANGED <<client, viewVars, pyVars>>

\* The closing brace of main: the automatic objects are destroyed one by one in
\* the reverse order of their construction.
MainUnwind ==
  /\ client = "test" /\ pc = Len(MainProgram) + 1 /\ stack # <<>>
  /\ LET top == stack[Len(stack)] IN
       /\ stack' = SubSeq(stack, 1, Len(stack) - 1)
       /\ IF top = "session"
            THEN session' = GElibSession_dtor(session) /\ env' = env
            ELSE session' = session /\ env' = [env EXCEPT ![top] = Undef]
  /\ UNCHANGED <<client, pc, viewVars, pyVars>>

MainReturned == client = "test" /\ pc = Len(MainProgram) + 1 /\ stack = <<>>

TestNext == MainExec \/ MainUnwind

\* ------------------------------------------------------------- SO3type

\* SO3type as the bindings use it: a vector of int, one entry per degree.
SO3type_ctor(list) == list
SO3type_size(t) == Len(t)
SO3type_maxl(t) == Len(t) - 1
SO3type_call(t, l) == t[l + 1]
SO3type_set(t, l, m) ==
  IF l < Len(t) THEN [t EXCEPT ![l + 1] = m]
  ELSE [i \in 1..(l + 1) |-> IF i <= Len(t) THEN t[i] ELSE IF i = l + 1 THEN m ELSE 0]
\* The text SO3type::str / SO3type::repr produce for t; the bindings fix the
\* indent argument only.
SO3type_str(t, indent) == [text |-> "str", indent |-> indent, of |-> t]
SO3type_repr(t, indent) == [text |-> "repr", indent |-> indent, of |-> t]

\* ------------------------------------------------- the Python bindings

\* An optional Python argument is <<>> (omitted) or <<value>>; py::arg(..)=d
\* supplies d for an omitted one.
Opt(a, d) == IF a = <<>> THEN d ELSE a[1]

IntArgs == {-1, 0, 1}
OptInts == {<<>>} \cup {<<i>> : i \in IntArgs}
OptN == {<<>>, <<-1>>, <<2>>}
OptDev == {<<>>, <<1>>}
Indents == {<<>>, <<"  ">>}
Lists == UNION {[1..k -> IntArgs] : k \in 0..MaxLen}
NativeOutcomes == {"returned", "raised"}

NoObj == [made |-> FALSE, t |-> <<>>]
NoNative == [fn |-> "none", args |-> <<>>]
NoCall == [fn |-> "none", args |-> <<>>, native |-> NoNative, nout |-> <<>>, out |-> <<>>]

Native(fn, args) == [fn |-> fn, args |-> args]

\* Each binding of py::class_<SO3type>: the native call it makes, the object
\* afterwards and the value Python gets back.
py_SO3type_init0 == [obj |-> <<>>, native |-> Native("SO3type()", <<>>), out |-> <<>>]
py_SO3type_init(list) ==
  [obj |-> SO3type_ctor(list), native |-> Native("SO3type(vector<int>)", <<list>>), out |-> <<>>]
py_SO3type_len(t) == [obj |-> t, native |-> Native("SO3type::size", <<>>), out |-> SO3type_size(t)]
py_SO3type_maxl(t) == [obj |-> t, native |-> Native("SO3type::maxl", <<>>), out |-> SO3type_maxl(t)]
py_SO3type_getitem_set(t, l) ==
  [obj |-> SO3type_set(t, l, 0), native |-> Native("SO3type::set", <<l, 0>>), out |-> <<>>]
py_SO3type_getitem(t, l) ==
  [obj |-> t, native |-> Native("SO3type::operator()", <<l>>), out |-> SO3type_call(t, l)]
py_SO3type_setitem(t, l, m) ==
  [obj |-> SO3type_set(t, l, m), native |-> Native("SO3type::set", <<l, m>>), out |-> <<>>]
py_SO3type_str(t, ind) ==
  [obj |-> t, native |-> Native("SO3type::str", <<Opt(ind, "")>>),
   out |-> SO3type_str(t, Opt(ind, ""))]
py_SO3type_repr(t, ind) ==
  [obj |-> t, native |-> Native("SO3type::repr", <<Opt(ind, "")>>),
   out |-> SO3type_repr(t, Opt(ind, ""))]

\* The SO3part factories: the lambda returns what the native factory returns.
py_SO3part_raw(b, l, n, dev, nout) ==
  [native |-> Native("SO3part<float>::raw", <<b, l, Opt(n, 1), Opt(dev, 0)>>), out |-> nout]
py_SO3part_zero(b, l, n, dev, nout) ==
  [native |-> Native("SO3part<float>::zero", <<b, l, Opt(n, 1), Opt(dev, 0)>>), out |-> nout]
py_SO3part_gaussian_swapped(b, l, n, dev, nout) ==
  [native |-> Native("SO3part<float>::gaussian", <<b, l, Opt(dev, 0), Opt(n, 1)>>), out |-> nout]
py_SO3part_gaussian(b, l, n, dev, nout) ==
  [native |-> Native("SO3part<float>::gaussian", <<b, l, Opt(n, 1), Opt(dev, 0)>>), out |-> nout]

\* The two CGproduct overloads registered on the module.
py_CGproduct_SO3type(xo, yo, maxl, nout) ==
  [native |-> Native("CGproduct(SO3type,SO3type,int)", <<xo, yo, Opt(maxl, -1)>>), out |-> nout]
py_CGproduct_SO3part(xo, yo, l, nout) ==
  [native |-> Native("CGproduct(SO3part,SO3part,int)", <<xo, yo, l[1]>>), out |-> nout]

\* m.CGproduct(x, y[, l]): the overloads are tried in the order registered; the
\* call is a TypeError when the arguments fit neither.
m_CGproduct(xo, yo, l, nout) ==
  IF xo.kind = "SO3type" /\ yo.kind = "SO3type" THEN py_CGproduct_SO3type(xo, yo, l, nout)
  ELSE IF xo.kind = "SO3part" /\ yo.kind = "SO3part" /\ l # <<>>
    THEN py_CGproduct_SO3part(xo, yo, l, nout)
  ELSE [native |-> NoNative, out |-> "TypeError"]

\* The objects a script passes to CGproduct.
PyObjects == {[kind |-> "SO3type", id |-> 1], [kind |-> "SO3part", id |-> 2]}

\* ------------------------------------------------- the Python process

\* Loading the extension runs its static initialisers: the global session.
PyLoad ==
  /\ client = "python" /\ pyphase = "start"
  /\ session' = GElibSession_ctor(session)
  /\ pyphase' = "loaded"
  /\ UNCHANGED <<client, viewVars, testVars, pytau, pyret>>

\* PYBIND11_MODULE: the module's init function registers the bindings.
PyModuleInit ==
  /\ client = "python" /\ pyphase = "loaded"
  /\ pyphase' = "ready"
  /\ UNCHANGED <<client, viewVars, testVars, session, pytau, pyret>>

\* The record of a finished call: what Python passed, the native call made, the
\* native call's outcome (nout) and what Python got (out).
PyDone(fn, args, nout, r) ==
  [fn |-> fn, args |-> args, native |-> r.native, nout |-> nout, out |-> r.out]

PyNewType ==
  /\ client = "python" /\ pyphase = "ready" /\ ~pytau.made
  /\ \/ /\ pytau' = [made |-> TRUE, t |-> py_SO3type_init0.obj]
        /\ pyret' = PyDone("SO3type", <<>>, py_SO3type_init0.out, py_SO3type_init0)
     \/ \E list \in Lists :
          /\ pytau' = [made |-> TRUE, t |-> py_SO3type_init(list).obj]
          /\ pyret' = PyDone("SO3type", <<list>>, py_SO3type_init(list).out, py_SO3type_init(list))
  /\ UNCHANGED <<client, viewVars, testVars, session, pyphase>>

PyTypeRead ==
  /\ client = "python" /\ pyphase = "ready" /\ pytau.made
  /\ \E r \in
         {[fn |-> "__len__", args |-> <<>>, r |-> py_SO3type_len(pytau.t)],
          [fn |-> "maxl", args |-> <<>>, r |-> py_SO3type_maxl(pytau.t)]}
         \cup {[fn |-> "__getitem__", args |-> <<l>>, r |-> py_SO3type_getitem(pytau.t, l)] :
                 l \in 0..(Len(pytau.t) - 1)}
         \cup {[fn |-> f, args |-> <<ind>>, r |-> py_SO3type_str(pytau.t, ind)] :
                 f \in {"str", "__str__"}, ind \in Indents}
         \cup {[fn |-> "__repr__", args |-> <<ind>>, r |-> py_SO3type_repr(pytau.t, ind)] :
                 ind \in Indents} :
       /\ pytau' = [pytau EXCEPT !.t = r.r.obj]
       /\ pyret' = PyDone(r.fn, r.args, r.r.out, r.r)
  /\ UNCHANGED <<client, viewVars, testVars, session, pyphase>>

PySetItem ==
  /\ client = "python" /\ pyphase = "ready" /\ pytau.made
  /\ \E l \in 0..MaxLen, m \in IntArgs :
       /\ pytau' = [pytau EXCEPT !.t = py_SO3type_setitem(pytau.t, l, m).obj]
       /\ pyret' = PyDone("__setitem__", <<l, m>>, <<>>, py_SO3type_setitem(pytau.t, l, m))
  /\ UNCHANGED <<client, viewVars, testVars, session, pyphase>>

PyFactory ==
  /\ client = "python" /\ pyphase = "ready"
  /\ \E b \in IntArgs, l \in IntArgs, n \in OptN, dev \in OptDev, nout \in NativeOutcomes :
       \/ pyret' = PyDone("raw", <<b, l, n, dev>>, nout, py_SO3part_raw(b, l, n, dev, nout))
       \/ pyret' = PyDone("zero", <<b, l, n, dev>>, nout, py_SO3part_zero(b, l, n, dev, nout))
       \/ pyret' = PyDone("gaussian", <<b, l, n, dev>>, nout, py_SO3part_gaussian(b, l, n, dev, nout))
  /\ UNCHANGED <<client, viewVars, testVars, session, pyphase, pytau>>

PyCGproduct ==
  /\ client = "python" /\ pyphase = "ready"
  /\ \E xo \in PyObjects, yo \in PyObjects, l \in OptInts, nout \in NativeOutcomes :
       pyret' = PyDone("CGproduct", <<xo, yo, l>>, nout, m_CGproduct(xo, yo, l, nout))
  /\ UNCHANGED <<client, viewVars, testVars, session, pyphase, pytau>>

\* The interpreter shuts down: no binding is called any more.
PyFinalize ==
  /\ client = "python" /\ pyphase = "ready"
  /\ pyphase' = "finalized"
  /\ UNCHANGED <<client, viewVars, testVars, session, pytau, pyret>>

\* Process exit runs the static destructors: the global session's.
PyExit ==
  /\ client = "python" /\ pyphase = "finalized"
  /\ session' = GElibSession_dtor(session)
  /\ pyphase' = "exited"
  /\ UNCHANGED <<client, viewVars, testVars, pytau, pyret>>

PyNext ==
  \/ PyLoad \/ PyModuleInit \/ PyNewType \/ PyTypeRead \/ PySetItem
  \/ PyFactory \/ PyCGproduct \/ PyFinalize \/ PyExit

\* ------------------------------------- claims: session, driver, bindings

Has(n) == env[n] # Undef
SessionDone == [live |-> FALSE, inits |-> 1, teardowns |-> 1]

\* C3: the session is set up once before the first library operation and torn
\* down once after the last: every statement of main other than the session's
\* own construction, every destructor of a library object and every call through
\* a binding runs while the session is live, and a finished process has set the
\* session up exactly once and torn it down exactly once.
C3_SessionBrackets ==
  /\ [](session.inits <= 1 /\ session.teardowns <= session.inits)
  /\ [](session.live <=> (session.inits = 1 /\ session.teardowns = 0))
  /\ [](MainReturned => session = SessionDone)
  /\ [](pyphase = "exited" => session = SessionDone)
  /\ [](pyphase = "ready" => session.live)
  /\ [][pyret' # pyret => session.live /\ session'.live]_vars
  /\ [][(pc' # pc /\ MainProgram[pc].op # "GElibSession") => session.live /\ session'.live]_vars
  /\ [][(Len(stack') < Len(stack) /\ stack[Len(stack)] # "session") => session.live]_vars

C3_Witness == pyphase = "exited" /\ pyret.fn = "CGproduct" /\ session = SessionDone

NonNeg(t) == \A i \in 1..Len(t) : t[i] >= 0
Readers == {"__len__", "maxl", "__getitem__", "str", "__str__", "__repr__"}

C7_BindingsForward ==
  /\ pyret.fn \in {"raw", "zero", "gaussian"} =>
       /\ pyret.native.fn = (CASE pyret.fn = "raw" -> "SO3part<float>::raw"
                               [] pyret.fn = "zero" -> "SO3part<float>::zero"
                               [] pyret.fn = "gaussian" -> "SO3part<float>::gaussian")
       /\ pyret.native.args =
            << pyret.args[1], pyret.args[2],
               IF pyret.args[3] = <<>> THEN 1 ELSE pyret.args[3][1],
               IF pyret.args[4] = <<>> THEN 0 ELSE pyret.args[4][1] >>
       /\ pyret.out = pyret.nout
  /\ (pyret.fn = "CGproduct" /\ pyret.args[1].kind = "SO3part" /\ pyret.args[2].kind = "SO3part"
        /\ pyret.args[3] # <<>>) =>
       /\ pyret.native = Native("CGproduct(SO3part,SO3part,int)",
                                <<pyret.args[1], pyret.args[2], pyret.args[3][1]>>)
       /\ pyret.out = pyret.nout
  /\ (pyret.fn = "CGproduct" /\ pyret.args[1].kind = "SO3type" /\ pyret.args[2].kind = "SO3type") =>
       /\ pyret.native = Native("CGproduct(SO3type,SO3type,int)",
                                << pyret.args[1], pyret.args[2],
                                   IF pyret.args[3] = <<>> THEN -1 ELSE pyret.args[3][1] >>)
       /\ pyret.out = pyret.nout

C7_Witness ==
  /\ pyret.fn = "gaussian" /\ pyret.args = <<-1, 0, <<>>, <<1>>>>
  /\ pyret.native.args = <<-1, 0, 1, 1>> /\ pyret.out = "raised"

\* ------------------------------------------------------- specification

Init ==
  /\ client \in {"view", "test", "python"}
  /\ x = NoView /\ y = NoView /\ ret = NoRet
  /\ kcalls = [fwd |-> 0, back |-> 0]
  /\ session = NoSession
  /\ pc = 1 /\ env = [n \in Locals |-> Undef] /\ stack = <<>>
  /\ pyphase = "start" /\ pytau = NoObj /\ pyret = NoCall

Next == ViewNext \/ TestNext \/ PyNext

Spec == Init /\ [][Next]_vars

\* The test driver alone; main keeps running until it has returned.
InitTest == Init /\ client = "test"

TestSpec == InitTest /\ [][TestNext]_vars /\ WF_vars(TestNext)

====
